---- MODULE Spec2Model ----
(***************************************************************************)
(* QuadraticBezierLine (src/quadratic_bezier_line.js): the control point   *)
(* derived from two endpoints and a curve factor, and the sampling of the  *)
(* quadratic Bezier curve into the cached array of points.                 *)
(*                                                                         *)
(* JavaScript numbers are IEEE-754 binary64.  The arithmetic of the source *)
(* ( + - * / ) is modelled bit for bit: a number is a sign, a 53-bit       *)
(* significand and a binary exponent, and every operation rounds to        *)
(* nearest, ties to even.  The significand does not fit TLC's integers, so *)
(* it is held as a little-endian sequence of 15-bit limbs.                 *)
(***************************************************************************)
EXTENDS Integers, Sequences, FiniteSets, TLC

(***************************************************************************)
(* Natural numbers of any size: little-endian sequences of limbs in        *)
(* 0..Base-1 with no leading (last) zero limb; <<>> is zero.               *)
(***************************************************************************)
Pow2[j \in 0..15] == 2^j

Base == Pow2[15]

RECURSIVE NNorm(_)
NNorm(x) ==
    IF x = <<>> THEN <<>>
    ELSE IF x[Len(x)] = 0 THEN NNorm(SubSeq(x, 1, Len(x) - 1))
    ELSE x

RECURSIVE NAddC(_, _, _)
NAddC(x, y, c) ==
    IF x = <<>> /\ y = <<>> THEN (IF c = 0 THEN <<>> ELSE <<c>>)
    ELSE LET s == (IF x = <<>> THEN 0 ELSE Head(x))
                  + (IF y = <<>> THEN 0 ELSE Head(y)) + c
         IN  <<s % Base>> \o NAddC(IF x = <<>> THEN <<>> ELSE Tail(x),
                                   IF y = <<>> THEN <<>> ELSE Tail(y),
                                   s \div Base)

NAdd(x, y) == NAddC(x, y, 0)

\* x - y for x >= y, before normalisation
RECURSIVE NSubB(_, _, _)
NSubB(x, y, b) ==
    IF x = <<>> THEN <<>>
    ELSE LET d == Head(x) - (IF y = <<>> THEN 0 ELSE Head(y)) - b
         IN  <<d % Base>> \o NSubB(Tail(x),
                                   IF y = <<>> THEN <<>> ELSE Tail(y),
                                   IF d < 0 THEN 1 ELSE 0)

NSub(x, y) == NNorm(NSubB(x, y, 0))

\* -1, 0 or 1 as x < y, x = y, x > y (both normalised)
RECURSIVE NCmpFrom(_, _, _)
NCmpFrom(x, y, i) ==
    IF i = 0 THEN 0
    ELSE IF x[i] < y[i] THEN -1
    ELSE IF x[i] > y[i] THEN 1
    ELSE NCmpFrom(x, y, i - 1)

NCmp(x, y) ==
    IF Len(x) < Len(y) THEN -1
    ELSE IF Len(x) > Len(y) THEN 1
    ELSE NCmpFrom(x, y, Len(x))

\* x * s for a single limb s
RECURSIVE NMulSmallC(_, _, _)
NMulSmallC(x, s, c) ==
    IF x = <<>> THEN (IF c = 0 THEN <<>> ELSE <<c>>)
    ELSE LET p == Head(x) * s + c
         IN  <<p % Base>> \o NMulSmallC(Tail(x), s, p \div Base)

NMulSmall(x, s) == IF s = 0 THEN <<>> ELSE NMulSmallC(x, s, 0)

\* x * Base
NShiftLimb(x) == IF x = <<>> THEN <<>> ELSE <<0>> \o x

RECURSIVE NMul(_, _)
NMul(x, y) ==
    IF y = <<>> \/ x = <<>> THEN <<>>
    ELSE NAdd(NMulSmall(x, Head(y)), NShiftLimb(NMul(x, Tail(y))))

NZeros(n) == [i \in 1..n |-> 0]

\* x * 2^k
NShl(x, k) ==
    IF x = <<>> THEN <<>>
    ELSE NZeros(k \div 15) \o NMulSmall(x, Pow2[k % 15])

\* floor(x / 2^j) for 0 <= j < 15, limb by limb
NShrBits(x, j) ==
    NNorm([i \in 1..Len(x) |->
             (x[i] \div Pow2[j])
             + (IF i < Len(x) THEN (x[i + 1] % Pow2[j]) * Pow2[15 - j]
                ELSE 0)])

\* floor(x / 2^k)
NShr(x, k) ==
    IF k \div 15 >= Len(x) THEN <<>>
    ELSE NShrBits(SubSeq(x, (k \div 15) + 1, Len(x)), k % 15)

\* bit i (from 0) of x
NBit(x, i) ==
    IF (i \div 15) + 1 > Len(x) THEN 0
    ELSE (x[(i \div 15) + 1] \div Pow2[i % 15]) % 2

\* whether one of the low k bits of x is set
NLowNonZero(x, k) ==
    \/ \E i \in 1..(k \div 15) : i <= Len(x) /\ x[i] # 0
    \/ /\ (k \div 15) + 1 <= Len(x)
       /\ x[(k \div 15) + 1] % Pow2[k % 15] # 0

RECURSIVE SmallBitLen(_)
SmallBitLen(v) == IF v = 0 THEN 0 ELSE 1 + SmallBitLen(v \div 2)

NBitLen(x) ==
    IF x = <<>> THEN 0
    ELSE (Len(x) - 1) * 15 + SmallBitLen(x[Len(x)])

RECURSIVE NFromInt(_)
NFromInt(n) == IF n = 0 THEN <<>> ELSE <<n % Base>> \o NFromInt(n \div Base)

(***************************************************************************)
(* A JavaScript number: k = "fin" (finite: (-1)^s * m * 2^e, with m either *)
(* zero or of exactly 53 bits), "inf" (signed infinity) or "nan".  The     *)
(* exponent is not bounded: the model's values stay far inside the normal  *)
(* range of binary64, where no overflow or subnormal occurs.               *)
(***************************************************************************)
NaN == [k |-> "nan", s |-> 0, m |-> <<>>, e |-> 0]

Inf(sg) == [k |-> "inf", s |-> sg, m |-> <<>>, e |-> 0]

Zero(sg) == [k |-> "fin", s |-> sg, m |-> <<>>, e |-> 0]

IsZero(a) == a.k = "fin" /\ a.m = <<>>

IsFinite(a) == a.k = "fin"

Fin(sg, m, e) == [k |-> "fin", s |-> sg, m |-> m, e |-> e]

\* q, or q + 1 when the sh bits of M dropped below it round up (ties to even)
RoundUp(q, M, sh) ==
    IF /\ NBit(M, sh - 1) = 1
       /\ (NLowNonZero(M, sh - 1) \/ NBit(q, 0) = 1)
    THEN NAdd(q, <<1>>)
    ELSE q

\* a rounded significand q of 53 bits, or of 54 bits when rounding carried
Renorm(sg, q, e) ==
    IF NBitLen(q) = 54 THEN Fin(sg, NShr(q, 1), e + 1) ELSE Fin(sg, q, e)

RoundLen(sg, M, E, L) ==
    IF L <= 53 THEN Fin(sg, NShl(M, 53 - L), E - (53 - L))
    ELSE Renorm(sg, RoundUp(NShr(M, L - 53), M, L - 53), E + (L - 53))

\* the binary64 nearest to (-1)^sg * M * 2^E, ties to even (M > 0)
Round(sg, M, E) == RoundLen(sg, M, E, NBitLen(M))

\* an integer literal or integer-valued variable as a number
FromInt(n) ==
    IF n = 0 THEN Zero(0)
    ELSE Round(IF n < 0 THEN 1 ELSE 0, NFromInt(IF n < 0 THEN -n ELSE n), 0)

FNeg(a) == IF a.k = "nan" THEN a ELSE [a EXCEPT !.s = 1 - a.s]

\* sa * A * 2^E + sb * B * 2^E for significands aligned to one exponent;
\* c is NCmp(A, B)
AddAligned(sa, A, sb, B, E, c) ==
    IF sa # sb /\ c = 0 THEN Zero(0)
    ELSE Round(IF sa = sb \/ c > 0 THEN sa ELSE sb,
               IF sa = sb THEN NAdd(A, B)
               ELSE IF c > 0 THEN NSub(A, B) ELSE NSub(B, A),
               E)

AddShifted(sa, A, sb, B, E) == AddAligned(sa, A, sb, B, E, NCmp(A, B))

\* the sum of two finite numbers that are not zero
AddFinite(a, b, E) ==
    AddShifted(a.s, NShl(a.m, a.e - E), b.s, NShl(b.m, b.e - E), E)

\* a + b
FAdd(a, b) ==
    IF a.k = "nan" \/ b.k = "nan" THEN NaN
    ELSE IF a.k = "inf" /\ b.k = "inf" THEN (IF a.s = b.s THEN a ELSE NaN)
    ELSE IF a.k = "inf" THEN a
    ELSE IF b.k = "inf" THEN b
    ELSE IF IsZero(a) /\ IsZero(b) THEN Zero(IF a.s = 1 /\ b.s = 1 THEN 1 ELSE 0)
    ELSE IF IsZero(a) THEN b
    ELSE IF IsZero(b) THEN a
    ELSE AddFinite(a, b, IF a.e < b.e THEN a.e ELSE b.e)

\* a - b
FSub(a, b) == FAdd(a, FNeg(b))

\* a * b
FMul(a, b) ==
    IF a.k = "nan" \/ b.k = "nan" THEN NaN
    ELSE IF a.k = "inf" \/ b.k = "inf"
         THEN (IF IsZero(a) \/ IsZero(b) THEN NaN ELSE Inf((a.s + b.s) % 2))
    ELSE IF IsZero(a) \/ IsZero(b) THEN Zero((a.s + b.s) % 2)
    ELSE Round((a.s + b.s) % 2, NMul(a.m, b.m), a.e + b.e)

\* the next base-32 digit of a quotient: the c with c * D <= R32 < (c + 1) * D
QuotDigit(R32, D) ==
    CHOOSE c \in 0..31 :
        /\ NCmp(NMulSmall(D, c), R32) <= 0
        /\ NCmp(NMulSmall(D, c + 1), R32) > 0

DivPut(Q, R32, D, d) ==
    <<NAdd(NShl(Q, 5), NFromInt(d)), NSub(R32, NMulSmall(D, d))>>

DivNext(Q, R32, D) == DivPut(Q, R32, D, QuotDigit(R32, D))

\* one more digit after <<quotient, remainder>> qr
DivStep(qr, D) ==
    IF qr[2] = <<>> THEN <<NShl(qr[1], 5), <<>>>>
    ELSE DivNext(qr[1], NShl(qr[2], 5), D)

\* <<floor(A * 32^n / D), A * 32^n mod D>> for A < 2 * D: long division,
\* one base-32 digit of the quotient at a time
RECURSIVE DivDigits(_, _, _)
DivDigits(A, D, n) ==
    IF n = 0
    THEN (IF NCmp(A, D) >= 0 THEN <<<<1>>, NSub(A, D)>> ELSE <<<<>>, A>>)
    ELSE DivStep(DivDigits(A, D, n - 1), D)

\* the quotient of 56 or 57 bits with its last bit set when the division is
\* inexact, rounded
RoundQuot(sg, qr, e) ==
    Round(sg, NAdd(NShl(qr[1], 1), IF qr[2] = <<>> THEN <<>> ELSE <<1>>), e)

\* a / b
FDiv(a, b) ==
    IF a.k = "nan" \/ b.k = "nan" THEN NaN
    ELSE IF a.k = "inf" THEN (IF b.k = "inf" THEN NaN ELSE Inf((a.s + b.s) % 2))
    ELSE IF b.k = "inf" THEN Zero((a.s + b.s) % 2)
    ELSE IF IsZero(b) THEN (IF IsZero(a) THEN NaN ELSE Inf((a.s + b.s) % 2))
    ELSE IF IsZero(a) THEN Zero((a.s + b.s) % 2)
    ELSE RoundQuot((a.s + b.s) % 2, DivDigits(a.m, b.m, 11), a.e - b.e - 56)

\* a == b of JavaScript: NaN equals nothing, the two zeros are equal
FEq(a, b) ==
    /\ a.k # "nan"
    /\ b.k # "nan"
    /\ \/ a = b
       \/ IsZero(a) /\ IsZero(b)

\* a decimal literal num/den (0.4 is Dec(4, 10)): the nearest binary64
Dec(num, den) == FDiv(FromInt(num), FromInt(den))

(***************************************************************************)
(* GLatLng (the host map library's coordinate): a latitude and a          *)
(* longitude, read back by lat() and lng().  The coordinates of the model  *)
(* stay within the range that GLatLng stores unchanged.                    *)
(***************************************************************************)
GLatLng(lat, lng) == [lat |-> lat, lng |-> lng]

\* null and undefined: what a field holds before it is assigned
Null == [null |-> TRUE]

\* an Array object and its elements
Array(items) == [items |-> items]

\* QuadraticBezierLine.defaults as shipped
ShippedDefaults ==
    [steps |-> 20, controlPoint |-> Null, curveFactor |-> Dec(4, 10)]

(***************************************************************************)
(* The methods.  self is the QuadraticBezierLine object: from, to, opts,   *)
(* control, points, middlePoint.                                           *)
(***************************************************************************)

\* bezier(t, getValue); axis names the getter: pt.lat() or pt.lng()
bezier(self, t, axis) ==
    FAdd(FAdd(FMul(FMul(FSub(FromInt(1), t), FSub(FromInt(1), t)), self.from[axis]),
              FMul(FMul(FMul(FromInt(2), t), FSub(FromInt(1), t)), self.control[axis])),
         FMul(FMul(t, t), self.to[axis]))

\* getPoint(t)
getPoint(self, t) == GLatLng(bezier(self, t, "lat"), bezier(self, t, "lng"))

\* |a|
FAbs(a) == IF a.k = "nan" THEN a ELSE [a EXCEPT !.s = 0]

\* OffsetPoint moving the middle point along the line, not across it
OffsetPointAlong(self, factor, middlePoint) ==
    GLatLng(FAdd(FMul(FSub(middlePoint.lat, self.to.lat), factor), middlePoint.lat),
            FAdd(FMul(FSub(self.to.lng, middlePoint.lng), factor), middlePoint.lng))

\* OffsetPoint taking the size of the factor and dropping its sign
OffsetPointUnsigned(self, factor, middlePoint) ==
    GLatLng(FAdd(FMul(FSub(middlePoint.lng, self.to.lng), FAbs(factor)), middlePoint.lat),
            FAdd(FMul(FSub(self.to.lat, middlePoint.lat), FAbs(factor)), middlePoint.lng))

\* new GLatLng(...) of calculateControlPoint, from its middlePoint
OffsetPoint(self, factor, middlePoint) ==
    GLatLng(FAdd(FMul(FSub(middlePoint.lng, self.to.lng), factor), middlePoint.lat),
            FAdd(FMul(FSub(self.to.lat, middlePoint.lat), factor), middlePoint.lng))

\* calculateControlPoint()
calculateControlPoint(self) ==
    OffsetPoint(self, self.opts.curveFactor,
                [lat |-> FDiv(FAdd(self.from.lat, self.to.lat), FromInt(2)),
                 lng |-> FDiv(FAdd(self.from.lng, self.to.lng), FromInt(2))])

\* EvenSteps without the rounding
EvenStepsAsGiven(n) == n

\* the number of steps has to be even
EvenSteps(n) == IF n % 2 = 0 THEN n ELSE n + 1

\* the parameter of iteration t of the loop: t * (1 / steps)
LoopParam(t, steps) == FMul(FromInt(t), FDiv(FromInt(1), FromInt(steps)))

\* the loop of getPolylinePoints: one point per t in 0..steps, pushed in order
SamplePoints(self, steps) ==
    Array([i \in 1..(steps + 1) |-> getPoint(self, LoopParam(i - 1, steps))])

\* the object once the loop has run: the points pushed, and middlePoint set
\* at t === steps / 2
Sampled(self, steps, pts) ==
    [self EXCEPT !.points = pts,
                 !.middlePoint = IF (steps \div 2) + 1 \in DOMAIN pts.items
                                 THEN pts.items[(steps \div 2) + 1]
                                 ELSE @]

SampleWith(self, steps) == Sampled(self, steps, SamplePoints(self, steps))

\* the function inside getPolylinePoints that fills self.points
ComputePoints(self) == SampleWith(self, EvenSteps(self.opts.steps))

\* what a call hands back: the object after it, the value returned, and
\* whether the sampling loop ran
Outcome(self, value, ran) == [self |-> self, ret |-> value, ran |-> ran]

Computed(self) == Outcome(self, self.points, TRUE)

\* getPolylinePoints without the test of this.points: samples on every call
getPolylinePointsUncached(self) == Computed(ComputePoints(self))

\* getPolylinePoints without the test and without self.points = []: every
\* call pushes the points again
getPolylinePointsAppending(self) ==
    IF self.points = Null THEN Computed(ComputePoints(self))
    ELSE Computed([ComputePoints(self) EXCEPT
                       !.points = Array(self.points.items \o @.items)])

\* getPolylinePoints(): this.points || (function() {...})();
getPolylinePoints(self) ==
    IF self.points # Null
    THEN Outcome(self, self.points, FALSE)
    ELSE Computed(ComputePoints(self))

\* this.control = this.opts.controlPoint || this.calculateControlPoint()
WithControl(self) ==
    [self EXCEPT !.control = IF self.opts.controlPoint # Null
                             THEN self.opts.controlPoint
                             ELSE calculateControlPoint(self)]

\* the constructor, up to the call of the GPolyline constructor with the points
Constructor(from, to, opts, defaults) ==
    getPolylinePoints(
        WithControl([from |-> from, to |-> to, opts |-> defaults,
                     control |-> Null, points |-> Null, middlePoint |-> Null]))

(***************************************************************************)
(* The inputs.                                                             *)
(***************************************************************************)
MaxSteps == 3

MaxGets == 2

P(a, b) == GLatLng(FromInt(a), FromInt(b))

\* the from and to of a line
Endpoints ==
    {<<P(0, 0), P(10, 10)>>, <<P(0, 0), P(1, 1)>>, <<P(-3, 2), P(1, 1)>>}

\* QuadraticBezierLine.defaults when the lines are built: as shipped, or with
\* the page's own steps, curveFactor or controlPoint set on it
DefaultsChoices ==
    {ShippedDefaults}
    \cup {[ShippedDefaults EXCEPT !.steps = n] : n \in 0..MaxSteps}
    \cup {[ShippedDefaults EXCEPT !.steps = 2, !.curveFactor = f] :
            f \in {FromInt(0), FNeg(Dec(4, 10)), Dec(1, 2)}}
    \cup {[ShippedDefaults EXCEPT !.steps = 2, !.controlPoint = P(3, 7)]}

\* the opts argument: none, or an object holding some of the options
OptsChoices ==
    {Null,
     [steps |-> 2],
     [controlPoint |-> P(3, 7), curveFactor |-> FNeg(Dec(4, 10))]}

\* the t of a direct call of getPoint or bezier
TChoices == {Dec(1, 4)}

(***************************************************************************)
(* defaults is QuadraticBezierLine.defaults; line is the QuadraticBezierLine *)
(* object (Null until it is built) and userOpts the opts it was built      *)
(* with; ret is what the last method call returned and lastOp names that   *)
(* call; samplings counts the runs of the sampling loop and gets the calls *)
(* of getPolylinePoints after the constructor.  The GPolyline constructor, *)
(* which receives the points, the colour, the weight and the opacity, is   *)
(* the host map library's and is left out.                                 *)
(***************************************************************************)
VARIABLES defaults, line, userOpts, ret, lastOp, samplings, gets

vars == <<defaults, line, userOpts, ret, lastOp, samplings, gets>>

Init ==
    /\ defaults \in DefaultsChoices
    /\ line = Null
    /\ userOpts = Null
    /\ ret = Null
    /\ lastOp = "load"
    /\ samplings = 0
    /\ gets = 0

\* the state after a call that may have run the sampling loop
Returned(r) ==
    /\ line' = r.self
    /\ samplings' = samplings + (IF r.ran THEN 1 ELSE 0)

\* new QuadraticBezierLine(from, to, opts)
Construct ==
    /\ line = Null
    /\ \E ends \in Endpoints, opts \in OptsChoices :
         /\ Returned(Constructor(ends[1], ends[2], opts, defaults))
         /\ userOpts' = opts
    /\ ret' = Null
    /\ lastOp' = "new"
    /\ UNCHANGED <<defaults, gets>>

RetOf(r) == ret' = r.ret

\* line.getPolylinePoints()
CallGetPolylinePoints ==
    /\ line # Null
    /\ gets < MaxGets
    /\ Returned(getPolylinePoints(line))
    /\ RetOf(getPolylinePoints(line))
    /\ gets' = gets + 1
    /\ lastOp' = "getPolylinePoints"
    /\ UNCHANGED <<defaults, userOpts>>

\* line.getPoint(t)
CallGetPoint ==
    /\ line # Null
    /\ \E t \in TChoices : ret' = getPoint(line, t)
    /\ lastOp' = "getPoint"
    /\ UNCHANGED <<defaults, line, userOpts, samplings, gets>>

\* line.bezier(t, getValue)
CallBezier ==
    /\ line # Null
    /\ \E t \in TChoices, axis \in {"lat", "lng"} : ret' = bezier(line, t, axis)
    /\ lastOp' = "bezier"
    /\ UNCHANGED <<defaults, line, userOpts, samplings, gets>>

\* line.calculateControlPoint()
CallCalculateControlPoint ==
    /\ line # Null
    /\ ret' = calculateControlPoint(line)
    /\ lastOp' = "calculateControlPoint"
    /\ UNCHANGED <<defaults, line, userOpts, samplings, gets>>

Next ==
    \/ Construct
    \/ CallGetPolylinePoints
    \/ CallGetPoint
    \/ CallBezier
    \/ CallCalculateControlPoint

Spec == Init /\ [][Next]_vars

(***************************************************************************)
(* The properties.                                                         *)
(***************************************************************************)
Built == line # Null

Pts == line.points.items

\* steps rounded up to the nearest even number
Effective(steps) == IF steps % 2 = 0 THEN steps ELSE steps + 1

Eff == Effective(line.opts.steps)

\* value(t) = (1-t)^2 * a + 2t(1-t) * c + t^2 * b, in binary64, left to right
Blend(t, a, c, b) ==
    FAdd(FAdd(FMul(FMul(FSub(FromInt(1), t), FSub(FromInt(1), t)), a),
              FMul(FMul(FMul(FromInt(2), t), FSub(FromInt(1), t)), c)),
         FMul(FMul(t, t), b))

\* evaluateAt(t, from, control, to) of the line
EvaluateAt(t) ==
    [lat |-> Blend(t, line.from.lat, line.control.lat, line.to.lat),
     lng |-> Blend(t, line.from.lng, line.control.lng, line.to.lng)]

\* p == q on both axes
PtEq(p, q) == FEq(p.lat, q.lat) /\ FEq(p.lng, q.lng)

\* the arithmetic midpoint of from and to
Mid ==
    [lat |-> FDiv(FAdd(line.from.lat, line.to.lat), FromInt(2)),
     lng |-> FDiv(FAdd(line.from.lng, line.to.lng), FromInt(2))]

\* the offset term of the derived control point for factor f
OffsetTerm(f) ==
    [lat |-> FMul(FSub(Mid.lng, line.to.lng), f),
     lng |-> FMul(FSub(line.to.lat, Mid.lat), f)]

\* the control point of the line that differs only in the sign of curveFactor
TwinControl == calculateControlPoint([line EXCEPT !.opts.curveFactor = FNeg(@)])

Derived == Built /\ line.opts.controlPoint = Null

\* C1: the first point of the sequence equals from and the last equals to,
\* for every endpoints, control point and step count.
C1_Endpoints ==
    Built => /\ PtEq(Pts[1], line.from)
             /\ PtEq(Pts[Len(Pts)], line.to)

\* C2: the sequence has effectiveSteps + 1 points: steps + 1 for even steps,
\* steps + 2 for odd steps.
C2_Length ==
    Built => /\ Len(Pts) = Eff + 1
             /\ (line.opts.steps % 2 = 0 => Len(Pts) = line.opts.steps + 1)
             /\ (line.opts.steps % 2 = 1 => Len(Pts) = line.opts.steps + 2)

C2_Witness ==
    /\ Built
    /\ line.opts.steps = 3
    /\ Len(Pts) = 5

\* the example of C3: from (0,0), to (10,10), control (3,7), steps 2
C3_Example ==
    (/\ line.from = P(0, 0)
     /\ line.to = P(10, 10)
     /\ line.control = P(3, 7)
     /\ line.opts.steps = 2)
    => Pts = <<P(0, 0), P(4, 6), P(10, 10)>>

\* C3: point i is the blend at the quotient t = i / effectiveSteps, for every
\* i in 0..effectiveSteps in order, and the example holds.  Equal means the
\* same number on both axes, NaN included, so the point of steps = 0 does not
\* decide it.
C3_QuotientParam ==
    Built => /\ \A i \in 0..Eff :
                  Pts[i + 1] = EvaluateAt(FDiv(FromInt(i), FromInt(Eff)))
             /\ C3_Example

\* C4: the midpoint is the sample at index effectiveSteps / 2 and equals
\* evaluateAt(0.5, from, control, to) exactly.
C4_Midpoint ==
    Built => /\ line.middlePoint = Pts[(Eff \div 2) + 1]
             /\ PtEq(line.middlePoint, EvaluateAt(Dec(1, 2)))

\* C5: with steps = 0 the sequence is the single point from, and no
\* coordinate is NaN or infinite.
C5_ZeroSteps ==
    (Built /\ line.opts.steps = 0)
    => /\ Len(Pts) = 1
       /\ PtEq(Pts[1], line.from)
       /\ PtEq(Pts[1], EvaluateAt(FromInt(0)))
       /\ IsFinite(Pts[1].lat) /\ IsFinite(Pts[1].lng)

\* C6: every option the caller supplies is the one the line uses, a supplied
\* controlPoint is the control point, and only the options not supplied take
\* the defaults.
C6_OptionsApplied ==
    (Built /\ userOpts # Null)
    => /\ \A o \in DOMAIN userOpts : line.opts[o] = userOpts[o]
       /\ \A o \in DOMAIN line.opts \ DOMAIN userOpts : line.opts[o] = defaults[o]
       /\ ("controlPoint" \in DOMAIN userOpts => line.control = userOpts.controlPoint)

\* C7: without a supplied control point the control point is
\* ((m.lng - to.lng) * f + m.lat, (to.lat - m.lat) * f + m.lng); it is the
\* midpoint m for f = 0, and (3, 7) for (0,0), (10,10) and f = 0.4.
C7_ControlPoint ==
    Derived
    => /\ line.control =
            [lat |-> FAdd(FMul(FSub(Mid.lng, line.to.lng), line.opts.curveFactor),
                          Mid.lat),
             lng |-> FAdd(FMul(FSub(line.to.lat, Mid.lat), line.opts.curveFactor),
                          Mid.lng)]
       /\ (IsZero(line.opts.curveFactor) => PtEq(line.control, Mid))
       /\ (/\ line.from = P(0, 0)
           /\ line.to = P(10, 10)
           /\ line.opts.curveFactor = Dec(4, 10)
           => line.control = P(3, 7))

C7_Witness ==
    /\ Derived
    /\ line.from = P(0, 0)
    /\ line.to = P(10, 10)
    /\ line.opts.curveFactor = Dec(4, 10)
    /\ line.control = P(3, 7)

\* C8 as claimed: for f and -f the differences control - m are exact
\* negations of each other on both axes.
C8_DifferencesNegate ==
    Derived
    => /\ FEq(FSub(line.control.lat, Mid.lat), FNeg(FSub(TwinControl.lat, Mid.lat)))
       /\ FEq(FSub(line.control.lng, Mid.lng), FNeg(FSub(TwinControl.lng, Mid.lng)))

\* C8 amended: for f and -f the control points are m + o and m + (-o) with
\* the same offset term o = ((m.lng - to.lng) * f, (to.lat - m.lat) * f): the
\* terms added to the midpoint are exact negations of each other.
C8_OffsetTermsNegate ==
    Derived
    => /\ line.control =
            [lat |-> FAdd(OffsetTerm(line.opts.curveFactor).lat, Mid.lat),
             lng |-> FAdd(OffsetTerm(line.opts.curveFactor).lng, Mid.lng)]
       /\ TwinControl =
            [lat |-> FAdd(FNeg(OffsetTerm(line.opts.curveFactor).lat), Mid.lat),
             lng |-> FAdd(FNeg(OffsetTerm(line.opts.curveFactor).lng), Mid.lng)]

C8_Witness ==
    /\ Derived
    /\ line.from = P(0, 0)
    /\ line.to = P(1, 1)
    /\ line.opts.curveFactor = Dec(4, 10)
    /\ line.control = GLatLng(Dec(3, 10), Dec(7, 10))
    /\ TwinControl = GLatLng(Dec(7, 10), Dec(3, 10))

\* C9: every retrieval of the points returns the cached sequence unchanged,
\* and the sampling loop runs at most once for a line.
C9_Memoized ==
    /\ [](samplings <= 1)
    /\ [][(Built /\ lastOp' = "getPolylinePoints")
          => /\ ret' = line.points
             /\ line'.points = line.points
             /\ samplings' = samplings]_vars

C9_Witness ==
    /\ Built
    /\ lastOp = "getPolylinePoints"
    /\ gets = 2
    /\ ret = line.points
    /\ samplings = 1

\* C10: once the line is built no operation changes its from, to, control,
\* points or midpoint.
C10_Frozen ==
    [][Built => /\ line'.from = line.from
                /\ line'.to = line.to
                /\ line'.control = line.control
                /\ line'.points = line.points
                /\ line'.middlePoint = line.middlePoint]_vars

C10_Witness ==
    /\ Built
    /\ lastOp = "calculateControlPoint"
    /\ gets > 0
    /\ ret = line.control
====
